---- MODULE Spec2Model ----
(***************************************************************************)
(* GenerateGraspPose (core/src/stages/generate_grasp_pose.cpp): a          *)
(* generator stage that samples grasp poses by rotating the object pose    *)
(* about its z axis.                                                       *)
(*                                                                         *)
(* Angles are fixed-point numbers in tenths of a radian (0.1 rad is the    *)
(* default angle_delta).  2*pi is irrational, so for an angle a on this    *)
(* grid  a/10 < 2*pi  holds exactly when  a <= 62  (62 < 20*pi < 63).      *)
(*                                                                         *)
(* Transforms (Eigen::Affine3d) are elements of a group.  They are kept    *)
(* symbolically, as reduced words over named generators with integer       *)
(* exponents (the free product of one copy of Z per generator): the        *)
(* identity is the empty word, composition concatenates and cancels at     *)
(* the junction, inversion reverses and negates.  Rotations about z are    *)
(* the powers of the generator "Rz", so Rot_z(a) * Rot_z(b) = Rot_z(a+b).  *)
(* Two words that are equal here are equal in every group.                 *)
(***************************************************************************)
EXTENDS Integers, Sequences, FiniteSets, TLC

VARIABLES
    props,          \* the stage's property map (lines 52-57)
    current_angle_, \* sampling cursor, tenths of a radian
    scene_,         \* the stage's scene: an index into heap, 0 = null
    heap,           \* the planning scenes allocated so far (their robot state)
    sink,           \* the (InterfaceState, SubTrajectory) pairs spawned so far
    n_init,         \* number of init() calls made by the host
    alive,          \* FALSE once the process was aborted
    last            \* observation of the last call: operation, result, entry state

vars == <<props, current_angle_, scene_, heap, sink, n_init, alive, last>>

----------------------------------------------------------------------------
(* Bounds of the model *)

\* the host calls init() at most this many times
MaxInit == 2
\* compute() is not called any more once the sink holds this many candidates
MaxSpawn == 6
\* the largest angle_delta of the sweep over step sizes, in tenths of a radian
MaxAngleDelta == 64

----------------------------------------------------------------------------
(* Transforms *)

Identity == << >>

Gen(g) == << [g |-> g, e |-> 1] >>

RECURSIVE Compose(_, _)
Compose(u, v) ==
    IF u = << >> THEN v
    ELSE IF v = << >> THEN u
    ELSE LET a == u[Len(u)]
             b == v[1]
         IN  IF a.g # b.g THEN u \o v
             ELSE IF a.e + b.e = 0
                  THEN Compose(SubSeq(u, 1, Len(u) - 1), SubSeq(v, 2, Len(v)))
                  ELSE SubSeq(u, 1, Len(u) - 1)
                       \o << [g |-> a.g, e |-> a.e + b.e] >>
                       \o SubSeq(v, 2, Len(v))

Inverse(u) ==
    [i \in 1..Len(u) |-> [g |-> u[Len(u) + 1 - i].g, e |-> 0 - u[Len(u) + 1 - i].e]]

\* Eigen::AngleAxisd(angle, UnitZ)
AngleAxisZ(angle) == IF angle = 0 THEN Identity ELSE << [g |-> "Rz", e |-> angle] >>

isIdentity_never(pose) == FALSE

\* pose.matrix().cwiseEqual(Identity().matrix()).all()
isIdentity(pose) == pose = Identity

\* tf::transformEigenToMsg / tf::transformMsgToEigen / tf::poseEigenToMsg
transformEigenToMsg(t) == [translation_rotation |-> t]
transformMsgToEigen(m) == m.translation_rotation
poseEigenToMsg(t) == [position_orientation |-> t]

----------------------------------------------------------------------------
(* The environment: robot model and planning scene *)

\* the end-effector groups the robot model's srdf defines
hasEndEffector(eef) == eef = "gripper"

\* getEndEffector(eef): the joint model group, with its parent link
getEndEffector(eef) ==
    [parent_link |-> "tool_link",
     link_names  |-> << "finger_l", "finger_r" >>,
     named_poses |-> {"open"}]

\* The scenes the host may hand to init().  A scene is its robot state (the
\* end-effector joints and the world pose of the end-effector's parent link) and
\* the frames of its world.  In the last one the robot's link sits at the origin.
FullScene == [joints |-> "default", link_pose |-> Gen("L"), frames |-> {"frame_f", "object"}]

HostScenes ==
    { FullScene,
      [joints |-> "default", link_pose |-> Gen("L"), frames |-> {"frame_f"}],
      [joints |-> "default", link_pose |-> Gen("L"), frames |-> {"object"}],
      [joints |-> "default", link_pose |-> Identity, frames |-> {"frame_f", "object"}] }

\* RobotState::setToDefaultValues(jmg, name)
setToDefaultValues(rs, jmg, name) ==
    IF name \in jmg.named_poses THEN [rs EXCEPT !.joints = name] ELSE rs

\* RobotState::updateStateWithLinkAt(link_name, pose)
updateStateWithLinkAt(rs, link_name, pose) == [rs EXCEPT !.link_pose = pose]

\* PlanningScene::getFrameTransform(id): the identity for an unknown frame.
\* "world" is the planning frame itself, a known frame whose pose is the identity.
getFrameTransform(rs, id) ==
    CASE id = "tool_link"                      -> rs.link_pose
      [] id = "frame_f" /\ id \in rs.frames   -> Gen("F")
      [] id = "object" /\ id \in rs.frames    -> Gen("P")
      [] OTHER                                 -> Identity

getPlanningFrame == "world"

----------------------------------------------------------------------------
(* The configuration values the host may set *)

EefValues == {"gripper", "bogus"}
NamedPoseValues == {"open"}
ObjectValues == {"object", "world"}
FrameValues == {"", "tool_link", "frame_f"}
TransformValues == {Identity, Gen("T")}
AngleDeltaValues == {0 - 31, 0, 16, 63}

\* p.declare<double>("angle_delta", 0.1): one tenth of a radian
AngleDeltaDefault == 1

\* geometry_msgs::TransformStamped(): empty frame ids, zero-initialised transform
TransformStampedDefault ==
    [frame_id |-> "", child_frame_id |-> "", transform |-> transformEigenToMsg(Identity)]

NoRobotState == [joints |-> "none", link_pose |-> Identity, frames |-> {}]

Observe(op, ret) ==
    [op |-> op, ret |-> ret, angle0 |-> current_angle_, len0 |-> Len(sink),
     robot0 |-> IF scene_ = 0 THEN NoRobotState ELSE heap[scene_]]

Init ==
    /\ props = [eef |-> "", eef_named_pose |-> "", object |-> "",
                tool_to_grasp_tf |-> TransformStampedDefault,
                angle_delta |-> AngleDeltaDefault]
    /\ current_angle_ = 0
    /\ scene_ = 0
    /\ heap = << >>
    /\ sink = << >>
    /\ n_init = 0
    /\ alive = TRUE
    /\ last = [op |-> "construct", ret |-> "ok", angle0 |-> 0, len0 |-> 0,
               robot0 |-> NoRobotState]

----------------------------------------------------------------------------
(* Property setters (lines 66-92).  The host configures a stage before it  *)
(* activates it: the setters are called before the first init().           *)

Configurable == alive /\ scene_ = 0

setEndEffector(eef) ==
    /\ Configurable
    /\ props' = [props EXCEPT !.eef = eef]
    /\ last' = Observe("setEndEffector", "ok")
    /\ UNCHANGED <<current_angle_, scene_, heap, sink, n_init, alive>>

setGripperGraspPose(pose_name) ==
    /\ Configurable
    /\ props' = [props EXCEPT !.eef_named_pose = pose_name]
    /\ last' = Observe("setGripperGraspPose", "ok")
    /\ UNCHANGED <<current_angle_, scene_, heap, sink, n_init, alive>>

setObject(object) ==
    /\ Configurable
    /\ props' = [props EXCEPT !.object = object]
    /\ last' = Observe("setObject", "ok")
    /\ UNCHANGED <<current_angle_, scene_, heap, sink, n_init, alive>>

\* setToolToGraspTF(const Eigen::Affine3d&, const std::string& link)
setToolToGraspTF(transform, link) ==
    /\ Configurable
    /\ props' = [props EXCEPT !.tool_to_grasp_tf =
                    [frame_id |-> link, child_frame_id |-> "grasp_frame",
                     transform |-> transformEigenToMsg(transform)]]
    /\ last' = Observe("setToolToGraspTF", "ok")
    /\ UNCHANGED <<current_angle_, scene_, heap, sink, n_init, alive>>

setAngleDelta(delta) ==
    /\ Configurable
    /\ props' = [props EXCEPT !.angle_delta = delta]
    /\ last' = Observe("setAngleDelta", "ok")
    /\ UNCHANGED <<current_angle_, scene_, heap, sink, n_init, alive>>

----------------------------------------------------------------------------
(* init (lines 60-64) *)

\* scene->diff(): a new scene branching off the host's scene
diff(h, scene) == Append(h, scene)

init_checksEef(scene) ==
    /\ alive
    /\ n_init < MaxInit
    /\ n_init' = n_init + 1
    /\ IF hasEndEffector(props.eef)
       THEN /\ heap' = diff(heap, scene)
            /\ scene_' = Len(heap')
            /\ last' = Observe("init", "ok")
       ELSE /\ last' = Observe("init", "error")
            /\ UNCHANGED <<heap, scene_>>
    /\ UNCHANGED <<props, current_angle_, sink, alive>>

init_resetsAngle(scene) ==
    /\ alive
    /\ n_init < MaxInit
    /\ heap' = diff(heap, scene)
    /\ scene_' = Len(heap')
    /\ n_init' = n_init + 1
    /\ current_angle_' = 0
    /\ last' = Observe("init", "ok")
    /\ UNCHANGED <<props, sink, alive>>

init(scene) ==
    /\ alive
    /\ n_init < MaxInit
    /\ heap' = diff(heap, scene)
    /\ scene_' = Len(heap')
    /\ n_init' = n_init + 1
    /\ last' = Observe("init", "ok")
    /\ UNCHANGED <<props, current_angle_, sink, alive>>

----------------------------------------------------------------------------
(* canCompute (lines 94-96) *)

\* floor(2 * M_PI * 10): the largest grid angle below 2*pi
TwoPiFloor == 62

canCompute_halfRange(angle) == 2 * angle <= TwoPiFloor /\ 2 * angle >= 0 - TwoPiFloor

canCompute_noLowerBound(angle) == angle <= TwoPiFloor

canCompute(angle) == angle <= TwoPiFloor /\ angle >= 0 - TwoPiFloor

canComputeCall ==
    /\ alive
    /\ scene_ # 0
    /\ last' = Observe("canCompute", IF canCompute(current_angle_) THEN "true" ELSE "false")
    /\ UNCHANGED <<props, current_angle_, scene_, heap, sink, n_init, alive>>

----------------------------------------------------------------------------
(* compute (lines 98-181) *)

Digit(d) == << "0", "1", "2", "3", "4", "5", "6", "7", "8", "9" >>[d + 1]

RECURSIVE Digits(_)
Digits(n) == IF n < 10 THEN << Digit(n) >> ELSE Digits(n \div 10) \o << Digit(n % 10) >>

\* std::to_string(double): "%f", six decimals; the argument is in tenths
to_string(angle) ==
    LET m == IF angle < 0 THEN 0 - angle ELSE angle
    IN  (IF angle < 0 THEN << "-" >> ELSE << >>)
        \o Digits(m \div 10) \o << "." >> \o << Digit(m % 10) >>
        \o << "0", "0", "0", "0", "0" >>

\* lines 113-114: an empty frame_id means the end-effector's parent link
frameIdOf(msg, link_name) == IF msg.frame_id = "" THEN link_name ELSE msg.frame_id

\* lines 117-118
grasp2toolOf(msg) == Inverse(transformMsgToEigen(msg.transform))

reexpress_noInverse(link_pose, tool_pose, to_grasp) ==
    Compose(Compose(link_pose, tool_pose), to_grasp)

\* line 128: to_grasp = link_pose.inverse() * tool_pose * to_grasp
reexpress(link_pose, tool_pose, to_grasp) ==
    Compose(Compose(Inverse(link_pose), tool_pose), to_grasp)

\* lines 120-131: grasp2link, or the error thrown
grasp2linkOf(rs, msg, link_name) ==
    LET frame_id == frameIdOf(msg, link_name)
        to_grasp == transformMsgToEigen(msg.transform)
    IN  IF frame_id # link_name
        THEN LET link_pose == getFrameTransform(rs, link_name)
                 tool_pose == getFrameTransform(rs, frame_id)
             IN  IF isIdentity(link_pose)
                 THEN [error |-> "requested link does not exist or could not be retrieved"]
                 ELSE IF isIdentity(tool_pose)
                 THEN [error |-> "requested frame does not exist or could not be retrieved"]
                 ELSE [error |-> "", tf |-> Inverse(reexpress(link_pose, tool_pose, to_grasp))]
        ELSE [error |-> "", tf |-> grasp2toolOf(msg)]

\* line 139
graspPoseOf(object_pose, angle) == Compose(object_pose, AngleAxisZ(angle))

advance_twice(angle, delta) == angle + delta + delta

\* line 141
advance(angle, delta) == angle + delta

trajectoryName_before(angle_before, angle_after) == to_string(angle_before)

\* line 151: the name is taken after current_angle_ was advanced
trajectoryName(angle_before, angle_after) == to_string(angle_after)

InterfaceState_alias(h, scene) == [heap |-> h, scene |-> scene]

\* InterfaceState state(scene_), line 143: the state holds a scene cloned from
\* the stage's scene; the result is the heap and the index of the state's scene
InterfaceState(h, scene) == [heap |-> Append(h, h[scene]), scene |-> Len(h) + 1]

\* lines 153-174: the arrow marker and one marker per end-effector link
markersOf(grasp_pose, grasp2tool, rs, jmg) ==
    << [ns |-> "grasp pose", frame_id |-> getPlanningFrame,
        pose |-> poseEigenToMsg(
                   Compose(Compose(grasp_pose, grasp2tool),
                           << [g |-> "RyHalfPi", e |-> 0 - 1], [g |-> "TxScale", e |-> 0 - 1] >>))] >>
    \o [i \in 1..Len(jmg.link_names) |->
          [ns |-> "grasp eef", link |-> jmg.link_names[i],
           joints |-> rs.joints, link_pose |-> rs.link_pose]]

applyNamedPose_whenActive(rs, jmg, eef_named_pose) ==
    IF eef_named_pose # "" /\ canCompute(current_angle_)
    THEN setToDefaultValues(rs, jmg, eef_named_pose) ELSE rs

\* lines 105-109: the named pose is applied to the scene's robot state
applyNamedPose(rs, jmg, eef_named_pose) ==
    IF eef_named_pose # "" THEN setToDefaultValues(rs, jmg, eef_named_pose) ELSE rs

\* the body of compute() for a defined end effector: what it returns or throws,
\* and the heap, cursor and sink it leaves
computeBody ==
    LET jmg == getEndEffector(props.eef)
        robot_state == applyNamedPose(heap[scene_], jmg, props.eef_named_pose)
        heap1 == [heap EXCEPT ![scene_] = robot_state]
        msg == props.tool_to_grasp_tf
        link_name == jmg.parent_link
        g2l == grasp2linkOf(robot_state, msg, link_name)
        grasp2tool == grasp2toolOf(msg)
        object_pose == getFrameTransform(robot_state, props.object)
        failed(what) == [ret |-> what, heap |-> heap1, angle |-> current_angle_, sink |-> sink]
    IN  IF g2l.error # "" THEN failed(g2l.error)
        ELSE IF isIdentity(object_pose)
        THEN failed("requested object does not exist or could not be retrieved")
        ELSE IF canCompute(current_angle_)
        THEN LET grasp_pose == graspPoseOf(object_pose, current_angle_)
                 link_pose == Compose(grasp_pose, g2l.tf)
                 angle1 == advance(current_angle_, props.angle_delta)
                 st == InterfaceState(heap1, scene_)
                 state == [scene |-> st.scene,
                           properties |-> [target_pose |->
                               [frame_id |-> link_name, pose |-> poseEigenToMsg(link_pose)]]]
                 robot2 == updateStateWithLinkAt(robot_state, link_name, link_pose)
                 trajectory == [cost |-> 0,
                                name |-> trajectoryName(current_angle_, angle1),
                                markers |-> markersOf(grasp_pose, grasp2tool, robot2, jmg)]
             IN  [ret |-> "true",
                  heap |-> [st.heap EXCEPT ![scene_] = robot2],
                  angle |-> angle1,
                  sink |-> Append(sink, [state |-> state, trajectory |-> trajectory])]
        ELSE [ret |-> "false", heap |-> heap1, angle |-> current_angle_, sink |-> sink]

\* line 102: assert(hasEndEffector(eef)).  With assertions compiled in the process
\* aborts; without them getEndEffector() yields a null group that line 112
\* dereferences.  Either way the process ends inside compute().
computeAbort ==
    /\ ~hasEndEffector(props.eef)
    /\ alive' = FALSE
    /\ last' = Observe("compute", "abort")
    /\ UNCHANGED <<props, current_angle_, scene_, heap, sink, n_init>>

computeRun ==
    /\ hasEndEffector(props.eef)
    /\ LET r == computeBody
       IN  /\ heap' = r.heap
           /\ current_angle_' = r.angle
           /\ sink' = r.sink
           /\ last' = Observe("compute", r.ret)
    /\ UNCHANGED <<props, scene_, n_init, alive>>

compute ==
    /\ alive
    /\ scene_ # 0
    /\ (computeAbort \/ computeRun)

\* the host stops asking for candidates once it holds MaxSpawn of them
hostCompute ==
    /\ Len(sink) < MaxSpawn \/ ~canCompute(current_angle_)
    /\ compute

----------------------------------------------------------------------------

Next ==
    \/ \E eef \in EefValues : setEndEffector(eef)
    \/ \E pose_name \in NamedPoseValues : setGripperGraspPose(pose_name)
    \/ \E object \in ObjectValues : setObject(object)
    \/ \E transform \in TransformValues, link \in FrameValues : setToolToGraspTF(transform, link)
    \/ \E delta \in AngleDeltaValues : setAngleDelta(delta)
    \/ \E scene \in HostScenes : init(scene)
    \/ canComputeCall
    \/ hostCompute

Spec == Init /\ [][Next]_vars

----------------------------------------------------------------------------
(* The sweep over step sizes: a stage configured with a defined end         *)
(* effector, an object of the scene and a positive angle_delta, activated   *)
(* once on the full scene and then asked for candidates until exhausted.    *)

SweepTransforms ==
    {TransformStampedDefault}
    \cup { [frame_id |-> link, child_frame_id |-> "grasp_frame",
            transform |-> transformEigenToMsg(transform)] :
           link \in FrameValues, transform \in TransformValues }

InitSweep ==
    /\ props \in [eef : {"gripper"}, eef_named_pose : {""} \cup NamedPoseValues,
                  object : {"object"}, tool_to_grasp_tf : SweepTransforms,
                  angle_delta : 1..MaxAngleDelta]
    /\ current_angle_ = 0
    /\ heap = << FullScene >>
    /\ scene_ = 1
    /\ sink = << >>
    /\ n_init = 1
    /\ alive = TRUE
    /\ last = [op |-> "init", ret |-> "ok", angle0 |-> 0, len0 |-> 0,
               robot0 |-> NoRobotState]

NextSweep ==
    \/ canComputeCall
    \/ compute

SpecSweep == InitSweep /\ [][NextSweep]_vars

----------------------------------------------------------------------------
(* Properties *)

\* the smallest grid angle above 2*pi
TwoPiCeil == TwoPiFloor + 1

\* |angle| >= 2*pi
Exhausted(angle) == angle >= TwoPiCeil \/ angle <= 0 - TwoPiCeil

LinkName == "tool_link"

\* the frame the offset of the configuration is declared in
DeclaredFrame ==
    IF props.tool_to_grasp_tf.frame_id = "" THEN LinkName ELSE props.tool_to_grasp_tf.frame_id

\* the configured offset T
OffsetT == props.tool_to_grasp_tf.transform.translation_rotation

\* the object, and the link and the declared frame when the offset is declared in
\* another frame than the link, resolve to something else than the identity in rs
AllResolvable(rs) ==
    /\ getFrameTransform(rs, props.object) # Identity
    /\ DeclaredFrame # LinkName =>
         /\ getFrameTransform(rs, LinkName) # Identity
         /\ getFrameTransform(rs, DeclaredFrame) # Identity

FatalResults ==
    {"abort",
     "requested link does not exist or could not be retrieved",
     "requested frame does not exist or could not be retrieved",
     "requested object does not exist or could not be retrieved"}

\* C1: canCompute() returns true iff -2*pi < current_angle < 2*pi; it is false
\* exactly when current_angle <= -2*pi or current_angle >= 2*pi, and true at 0.
C1_CanComputeIffWithinTwoPi ==
    last.op = "canCompute" =>
        /\ (last.ret = "true") <=>
              (0 - TwoPiCeil < current_angle_ /\ current_angle_ < TwoPiCeil)
        /\ (last.ret = "false") <=>
              (current_angle_ <= 0 - TwoPiCeil \/ current_angle_ >= TwoPiCeil)
        /\ current_angle_ = 0 => last.ret = "true"

C1_Witness ==
    /\ last.op = "canCompute"
    /\ last.ret = "false"
    /\ current_angle_ <= 0 - TwoPiCeil

\* C2 as stated: with angle_delta > 0, from angle 0, the number of candidates
\* produced before canCompute() becomes false is ceil(4*pi / angle_delta).
\* (40*pi = 125.66..., so on the grid the ceiling is 125 \div delta + 1.)
C2_Original ==
    (props.angle_delta > 0 /\ last.ret = "false") =>
        Len(sink) = ((2 * TwoPiFloor + 1) \div props.angle_delta) + 1

\* C2, amended: with angle_delta > 0, from angle 0, the number of candidates
\* produced before canCompute() becomes false is ceil(2*pi / angle_delta), and
\* canCompute() and compute() return true as long as there are fewer; the cursor
\* is the number of candidates times angle_delta.
\* (20*pi = 62.83..., so on the grid the ceiling is 62 \div delta + 1.)
C2_CandidateCount ==
    props.angle_delta > 0 =>
        /\ current_angle_ = Len(sink) * props.angle_delta
        /\ last.ret = "false" =>
              Len(sink) = (TwoPiFloor \div props.angle_delta) + 1
        /\ last.ret = "true" =>
              last.len0 < (TwoPiFloor \div props.angle_delta) + 1

C2_Witness ==
    /\ props.angle_delta = AngleDeltaDefault
    /\ last.op = "canCompute"
    /\ last.ret = "false"
    /\ Len(sink) = 63

\* C3: a compute() entered with canCompute() true and the link, the declared
\* frame and the object resolvable emits exactly one pair, advances current_angle
\* by exactly angle_delta and returns true; no compute() emits more than one pair
\* (and none touches the pairs emitted before).
C3_ExactlyOnePerCall ==
    [][last'.op = "compute" =>
         /\ Len(sink') <= Len(sink) + 1
         /\ SubSeq(sink', 1, Len(sink)) = sink
         /\ (/\ ~Exhausted(current_angle_)
             /\ hasEndEffector(props.eef)
             /\ AllResolvable(heap[scene_]))
            => /\ last'.ret = "true"
               /\ Len(sink') = Len(sink) + 1
               /\ current_angle_' = current_angle_ + props.angle_delta]_vars

C3_Witness ==
    /\ last.op = "compute"
    /\ last.ret = "true"
    /\ Len(sink) = last.len0 + 1
    /\ Len(sink) >= 2
    /\ current_angle_ = last.angle0 + props.angle_delta

\* C4: when the object does not resolve (getFrameTransform returns the identity),
\* compute() ends with a fatal error, emits nothing and leaves current_angle as is.
C4_UnresolvedObjectFails ==
    (last.op = "compute" /\ getFrameTransform(last.robot0, props.object) = Identity) =>
        /\ last.ret \in FatalResults
        /\ Len(sink) = last.len0
        /\ current_angle_ = last.angle0

C4_Witness ==
    /\ last.op = "compute"
    /\ last.ret = "requested object does not exist or could not be retrieved"
    /\ props.object = "object"
    /\ "object" \notin last.robot0.frames
    /\ ~Exhausted(last.angle0)
    /\ Len(sink) >= 1

\* the scratch robot state rs after a configured, known named pose was applied
WithNamedPose(rs) ==
    IF props.eef_named_pose \in getEndEffector(props.eef).named_poses
    THEN [rs EXCEPT !.joints = props.eef_named_pose]
    ELSE rs

\* C5 as stated: a compute() entered with canCompute() false returns false and
\* has no effect at all, whatever the configuration: nothing emitted, current_angle
\* and the scratch robot state unchanged, no error.
C5_Original ==
    (last.op = "compute" /\ Exhausted(last.angle0)) =>
        /\ last.ret = "false"
        /\ Len(sink) = last.len0
        /\ current_angle_ = last.angle0
        /\ heap[scene_] = last.robot0

\* C5, amended: a compute() entered with canCompute() false emits nothing and
\* leaves current_angle unchanged; it still runs the steps before the loop: with a
\* defined end effector a configured named pose is applied to the scratch robot
\* state, and it returns false only if the object (and the link and the declared
\* frame, when the offset is declared in another frame) resolve: otherwise it
\* throws, as it does when not exhausted.
C5_ExhaustedCompute ==
    (last.op = "compute" /\ Exhausted(last.angle0)) =>
        /\ Len(sink) = last.len0
        /\ current_angle_ = last.angle0
        /\ hasEndEffector(props.eef) =>
              /\ heap[scene_] = WithNamedPose(last.robot0)
              /\ AllResolvable(last.robot0) => last.ret = "false"
              /\ ~AllResolvable(last.robot0) => last.ret \in FatalResults \ {"abort"}
        /\ ~hasEndEffector(props.eef) => last.ret = "abort"

C5_Witness ==
    /\ last.op = "compute"
    /\ Exhausted(last.angle0)
    /\ last.ret = "false"
    /\ heap[scene_] # last.robot0

\* C6 as stated: init() fails with a fatal error if the configured end-effector
\* name is no end effector of the robot model of the scene.
C6_Original ==
    (last.op = "init" /\ ~hasEndEffector(props.eef)) => last.ret = "error"

\* C6, amended: init() does not look at the end-effector name: it succeeds and
\* binds the stage to a new branch of the scene; an undefined end effector ends
\* the process at the start of the next compute(), before anything is applied to
\* the scene, emitted or advanced.
C6_EefCheckedInCompute ==
    /\ last.op = "init" =>
          /\ last.ret = "ok"
          /\ alive
          /\ scene_ = Len(heap)
          /\ heap[scene_] \in HostScenes
    /\ (last.op = "compute" /\ ~hasEndEffector(props.eef)) =>
          /\ last.ret = "abort"
          /\ ~alive
          /\ Len(sink) = last.len0
          /\ current_angle_ = last.angle0
          /\ heap[scene_] = last.robot0
    /\ (last.op = "compute" /\ hasEndEffector(props.eef)) => (last.ret # "abort" /\ alive)

C6_Witness ==
    /\ last.op = "compute"
    /\ last.ret = "abort"
    /\ props.eef = "bogus"
    /\ n_init >= 1

C8_ExhaustedIsTerminal ==
    [][/\ Exhausted(current_angle_) => Exhausted(current_angle_')
       /\ (~Exhausted(current_angle_) /\ Exhausted(current_angle_')) =>
             /\ last'.op = "compute"
             /\ last'.ret = "true"
             /\ Len(sink') = Len(sink) + 1
             /\ current_angle_' = current_angle_ + props.angle_delta]_vars

C8_Witness ==
    /\ Exhausted(current_angle_)
    /\ last.op = "init"
    /\ Exhausted(last.angle0)
    /\ n_init >= 2

\* the pair emitted by the last compute()
Emitted == sink[Len(sink)]

EmittedPose == Emitted.state.properties.target_pose.pose.position_orientation

\* inverse(link_pose_in_world) o F_pose_in_world o T, with the poses of rs
Reexpressed(rs, frame) ==
    Compose(Compose(Inverse(getFrameTransform(rs, LinkName)), getFrameTransform(rs, frame)),
            OffsetT)

\* grasp->link as the code derives it from the poses of rs
Grasp2Link(rs) ==
    IF DeclaredFrame # LinkName THEN Inverse(Reexpressed(rs, DeclaredFrame)) ELSE Inverse(OffsetT)

\* C9: a successful compute() emits the pose of the angle before the increment,
\* object_pose o Rot_z(angle_before) o grasp->link, with a trajectory of cost 0
\* named after the angle after the increment; the first call from angle 0 emits
\* the pose for angle 0 and leaves current_angle = angle_delta.
C9_PoseBeforeNameAfter ==
    (last.op = "compute" /\ last.ret = "true") =>
        /\ EmittedPose =
              Compose(Compose(getFrameTransform(last.robot0, props.object),
                              AngleAxisZ(last.angle0)),
                      Grasp2Link(last.robot0))
        /\ Emitted.trajectory.cost = 0
        /\ Emitted.trajectory.name = to_string(last.angle0 + props.angle_delta)
        /\ Emitted.trajectory.name = to_string(current_angle_)
        /\ props.angle_delta # 0 => Emitted.trajectory.name # to_string(last.angle0)
        /\ last.angle0 = 0 =>
              /\ current_angle_ = props.angle_delta
              /\ EmittedPose = Compose(getFrameTransform(last.robot0, props.object),
                                       Grasp2Link(last.robot0))

C9_Witness ==
    /\ last.op = "compute"
    /\ last.ret = "true"
    /\ last.angle0 = 0
    /\ props.angle_delta = 16
    /\ current_angle_ = 16
    /\ Emitted.trajectory.name = << "1", ".", "6", "0", "0", "0", "0", "0" >>
    /\ EmittedPose = Gen("P")

\* the grasp->link transform the last emitted pose was built with:
\* inverse(object_pose o Rot_z(angle_before)) o link_pose
UsedGrasp2Link ==
    Compose(Inverse(Compose(getFrameTransform(last.robot0, props.object),
                            AngleAxisZ(last.angle0))),
            EmittedPose)

\* C10 as stated: with the offset T declared in a frame F other than the link,
\* grasp->link = inverse(link_pose_in_world) o F_pose_in_world o T; in the direct
\* case grasp->link = inverse(T).
C10_Original ==
    (last.op = "compute" /\ last.ret = "true") =>
        UsedGrasp2Link =
            IF DeclaredFrame # LinkName
            THEN Reexpressed(last.robot0, DeclaredFrame)
            ELSE Inverse(OffsetT)

\* C10, amended: with the offset T declared in a frame F other than the link,
\* grasp->link = inverse(inverse(link_pose_in_world) o F_pose_in_world o T);
\* substituting F = link gives inverse(T), the direct case.
C10_ReexpressionInverted ==
    (last.op = "compute" /\ last.ret = "true") =>
        /\ UsedGrasp2Link =
              IF DeclaredFrame # LinkName
              THEN Inverse(Reexpressed(last.robot0, DeclaredFrame))
              ELSE Inverse(OffsetT)
        /\ Inverse(Reexpressed(last.robot0, LinkName)) = Inverse(OffsetT)
        /\ Compose(Inverse(OffsetT), OffsetT) = Identity

C10_Witness ==
    /\ last.op = "compute"
    /\ last.ret = "true"
    /\ DeclaredFrame = "frame_f"
    /\ OffsetT = Gen("T")
    /\ last.len0 >= 1
    /\ UsedGrasp2Link # Inverse(OffsetT)

====
